---------------------------- MODULE Spec2Model ----------------------------
(***************************************************************************)
(* A model of the JSONL viewer (src/src/app/page.tsx): line ingestion      *)
(* (parseJsonl), the filter/sort view (displayLines), the tree view        *)
(* (TreeNode / TreeView), the syntax-highlighting tokenizer                *)
(* (highlightJson), the document container (Home) and the copy buttons     *)
(* (handleCopy).                                                           *)
(*                                                                         *)
(* JavaScript strings are modelled as sequences of one-character strings,  *)
(* so that indexing, slicing and concatenation are computed the way the    *)
(* code computes them.  JS indices are 0-based: the character at JS index  *)
(* k of t is t[k + 1].                                                     *)
(***************************************************************************)
EXTENDS Integers, Sequences, FiniteSets, TLC

VARIABLES
    text,        \* highlightJson: the argument `text`
    tokI,        \* highlightJson: the loop index `i`
    tokens,      \* highlightJson: the array `tokens`
    content,     \* parseJsonl: the argument `content`
    jsonLines,   \* parseJsonl: the JsonLine[] it returns
    ingestPc,    \* parseJsonl: "call" before it has run, "return" after
    lines,       \* displayLines: the dependency `lines`
    filter,      \* displayLines: the dependency `filter`
    sortOrder,   \* displayLines: the dependency `sortOrder`
    displayLines,\* displayLines: the memoized result
    viewPc,      \* displayLines: "call" before it is computed, "return" after
    selectedId,      \* Home: selectedId (NullId for null)
    viewTab,         \* Home: viewTab
    treeViewMounted, \* whether a TreeView instance is mounted in the detail panel
    selectedPath,    \* TreeView: selectedPath
    selectedValue,   \* TreeView: selectedValue
    expandedPaths,   \* TreeView: expandedPaths
    files,           \* Home: files
    activeFileId,    \* Home: activeFileId (NullFile for null)
    pending,         \* the FileReader reads in flight, each [name, content]
    generated,       \* how many ids generateFileId has returned
    loaded,          \* history: the [name, content] of each completed read, by id
    closed,          \* history: the ids of the documents closed so far
    copied,          \* `copied` of Home and of TreeView, by component
    copyWrites,      \* clipboard writes awaited by handleCopy, by component
    copyTimers,      \* setTimeout callbacks of handleCopy not yet run, by component
    copies           \* history: how many times a copy button was clicked

tokVars == <<text, tokI, tokens>>
ingestVars == <<content, jsonLines, ingestPc>>
viewVars == <<lines, filter, sortOrder, displayLines, viewPc>>
treeVars == <<treeViewMounted, selectedPath, selectedValue, expandedPaths>>
panelVars == <<selectedId, viewTab>>

docVars == <<files, activeFileId, pending, generated, loaded, closed>>
copyVars == <<copied, copyWrites, copyTimers, copies>>

vars == <<tokVars, ingestVars, viewVars, panelVars, treeVars, docVars, copyVars>>

\* The state of a part of the program that a specification leaves at rest.
TokIdle ==
    /\ text = <<>>
    /\ tokI = 0
    /\ tokens = <<>>

IngestIdle ==
    /\ content = <<>>
    /\ jsonLines = <<>>
    /\ ingestPc = "idle"

ViewIdle ==
    /\ lines = <<>>
    /\ filter = <<>>
    /\ sortOrder = "asc"
    /\ displayLines = <<>>
    /\ viewPc = "idle"

\* useState<number | null>(null): no record id is 0, which stands for null.
NullId == 0

PanelIdle ==
    /\ selectedId = NullId
    /\ viewTab = "pretty"

\* useState<string | null>(null): the n-th id generateFileId returns is
\* modelled by n, and 0 stands for null.
NullFile == 0

DocIdle ==
    /\ files = <<>>
    /\ activeFileId = NullFile
    /\ pending = <<>>
    /\ generated = 0
    /\ loaded = <<>>
    /\ closed = {}

\* No TreeView instance exists: its state variables hold no component state.
TreeIdle ==
    /\ treeViewMounted = FALSE
    /\ selectedPath = [kind |-> "null", val |-> <<>>]
    /\ selectedValue = [kind |-> "null", val |-> <<>>]
    /\ expandedPaths = {}

\* The two components that have a `copied` flag and a handleCopy.
Components == {"Home", "TreeView"}

\* useState(false) in both components; nothing has been copied.
CopyIdle ==
    /\ copied = [c \in Components |-> FALSE]
    /\ copyWrites = [c \in Components |-> 0]
    /\ copyTimers = [c \in Components |-> 0]
    /\ copies = 0

(***************************************************************************)
(* Strings                                                                 *)
(***************************************************************************)
Min(a, b) == IF a < b THEN a ELSE b

\* text[k] of JavaScript; "undefined" stands for the value undefined that an
\* out-of-range index yields (it is no one-character string).
At(t, k) == IF k >= 0 /\ k < Len(t) THEN t[k + 1] ELSE "undefined"

\* String.prototype.slice(a, b) for 0 <= a <= b.
Slice(t, a, b) == SubSeq(t, a + 1, Min(b, Len(t)))

\* The characters /\s/ matches, among those the model's texts are made of.
IsSpace(c) == c \in {" ", "\t", "\n", "\r"}

IsDigit(c) == c \in {"0", "1", "2", "3", "4", "5", "6", "7", "8", "9"}

LitTrue == <<"t", "r", "u", "e">>
LitFalse == <<"f", "a", "l", "s", "e">>
LitNull == <<"n", "u", "l", "l">>

RECURSIVE Flatten(_)
Flatten(ss) == IF ss = <<>> THEN <<>> ELSE Head(ss) \o Flatten(Tail(ss))

\* All sequences over S of length 0..n.
SeqsUpTo(S, n) == UNION {[1..k -> S] : k \in 0..n}

(***************************************************************************)
(* JSON values and JSON.parse                                              *)
(*                                                                         *)
(* A JavaScript value is a record [kind, val]: null, undefined, a boolean, *)
(* a number (held as its source text), a string (a character sequence),    *)
(* an array (a sequence of values) or an object (a sequence of             *)
(* [key, value] entries in insertion order, as Object.entries lists them   *)
(* for keys that are not array indices).                                   *)
(***************************************************************************)
JsNull == [kind |-> "null", val |-> <<>>]
JsUndefined == [kind |-> "undefined", val |-> <<>>]
JsBool(b) == [kind |-> "boolean", val |-> b]
JsNumber(lexeme) == [kind |-> "number", val |-> lexeme]
JsString(chars) == [kind |-> "string", val |-> chars]
JsArray(items) == [kind |-> "array", val |-> items]
JsObject(entries) == [kind |-> "object", val |-> entries]

ParseFail == [ok |-> FALSE, val |-> JsNull, i |-> 0]
ParseOk(v, k) == [ok |-> TRUE, val |-> v, i |-> k]

RECURSIVE SkipJsonWs(_, _)
SkipJsonWs(t, k) ==
    IF k < Len(t) /\ At(t, k) \in {" ", "\t", "\n", "\r"}
    THEN SkipJsonWs(t, k + 1)
    ELSE k

\* The character a two-character escape stands for (\u escapes are not
\* among the model's texts).
Unescaped(c) ==
    CASE c = "n" -> "\n"
      [] c = "t" -> "\t"
      [] c = "r" -> "\r"
      [] OTHER -> c

\* The characters of a string literal from index k (after the opening quote).
RECURSIVE ParseChars(_, _, _)
ParseChars(t, k, acc) ==
    IF k >= Len(t) THEN ParseFail
    ELSE IF At(t, k) = "\"" THEN ParseOk(acc, k + 1)
    ELSE IF At(t, k) = "\\"
         THEN IF At(t, k + 1) \in {"\"", "\\", "/", "n", "t", "r"}
              THEN ParseChars(t, k + 2, Append(acc, Unescaped(At(t, k + 1))))
              ELSE ParseFail
    ELSE IF At(t, k) \in {"\n", "\t", "\r"} THEN ParseFail
    ELSE ParseChars(t, k + 1, Append(acc, At(t, k)))

RECURSIVE DigitsEnd(_, _)
DigitsEnd(t, k) == IF IsDigit(At(t, k)) THEN DigitsEnd(t, k + 1) ELSE k

\* -? (0 | [1-9][0-9]*) (. [0-9]+)? ([eE] [+-]? [0-9]+)?
ParseNumber(t, k) ==
    LET s == IF At(t, k) = "-" THEN k + 1 ELSE k
        intEnd == IF At(t, s) = "0" THEN s + 1 ELSE DigitsEnd(t, s)
        fracEnd == IF At(t, intEnd) = "." THEN DigitsEnd(t, intEnd + 1) ELSE intEnd
        fracOk == At(t, intEnd) # "." \/ fracEnd > intEnd + 1
        expAt == IF At(t, fracEnd) \in {"e", "E"}
                 THEN IF At(t, fracEnd + 1) \in {"+", "-"}
                      THEN fracEnd + 2 ELSE fracEnd + 1
                 ELSE fracEnd
        expEnd == IF expAt > fracEnd THEN DigitsEnd(t, expAt) ELSE fracEnd
        expOk == expAt = fracEnd \/ expEnd > expAt
    IN  IF intEnd > s /\ fracOk /\ expOk
        THEN ParseOk(JsNumber(Slice(t, k, expEnd)), expEnd)
        ELSE ParseFail

\* Setting a key of an object: a new key is appended, an existing key keeps
\* its place and takes the new value.
ObjPut(entries, key, v) ==
    IF \E n \in 1..Len(entries) : entries[n].key = key
    THEN [n \in 1..Len(entries) |->
            IF entries[n].key = key THEN [key |-> key, value |-> v] ELSE entries[n]]
    ELSE Append(entries, [key |-> key, value |-> v])

RECURSIVE ParseValue(_, _)
RECURSIVE ParseArrayRest(_, _, _)
RECURSIVE ParseObjectRest(_, _, _)

\* The elements of an array from index k, where an element must start.
ParseArrayRest(t, k, acc) ==
    LET v == ParseValue(t, k)
        j == SkipJsonWs(t, v.i)
    IN  IF ~v.ok THEN ParseFail
        ELSE IF At(t, j) = "," THEN ParseArrayRest(t, j + 1, Append(acc, v.val))
        ELSE IF At(t, j) = "]" THEN ParseOk(JsArray(Append(acc, v.val)), j + 1)
        ELSE ParseFail

\* The members of an object from index k, where a key must start.
ParseObjectRest(t, k, acc) ==
    LET j == SkipJsonWs(t, k)
        key == IF At(t, j) = "\"" THEN ParseChars(t, j + 1, <<>>) ELSE ParseFail
        c == SkipJsonWs(t, key.i)
        v == IF key.ok /\ At(t, c) = ":" THEN ParseValue(t, c + 1) ELSE ParseFail
        e == SkipJsonWs(t, v.i)
    IN  IF ~v.ok THEN ParseFail
        ELSE IF At(t, e) = ","
             THEN ParseObjectRest(t, e + 1, ObjPut(acc, key.val, v.val))
        ELSE IF At(t, e) = "}"
             THEN ParseOk(JsObject(ObjPut(acc, key.val, v.val)), e + 1)
        ELSE ParseFail

ParseValue(t, k) ==
    LET j == SkipJsonWs(t, k)
        c == At(t, j)
    IN  IF Slice(t, j, j + 4) = LitNull THEN ParseOk(JsNull, j + 4)
        ELSE IF Slice(t, j, j + 4) = LitTrue THEN ParseOk(JsBool(TRUE), j + 4)
        ELSE IF Slice(t, j, j + 5) = LitFalse THEN ParseOk(JsBool(FALSE), j + 5)
        ELSE IF c = "\""
             THEN LET s == ParseChars(t, j + 1, <<>>)
                  IN  IF s.ok THEN ParseOk(JsString(s.val), s.i) ELSE ParseFail
        ELSE IF c = "-" \/ IsDigit(c) THEN ParseNumber(t, j)
        ELSE IF c = "["
             THEN IF At(t, SkipJsonWs(t, j + 1)) = "]"
                  THEN ParseOk(JsArray(<<>>), SkipJsonWs(t, j + 1) + 1)
                  ELSE ParseArrayRest(t, j + 1, <<>>)
        ELSE IF c = "{"
             THEN IF At(t, SkipJsonWs(t, j + 1)) = "}"
                  THEN ParseOk(JsObject(<<>>), SkipJsonWs(t, j + 1) + 1)
                  ELSE ParseObjectRest(t, j + 1, <<>>)
        ELSE ParseFail

\* JSON.parse(raw): ok is FALSE where JSON.parse throws a SyntaxError.
JsonParse(raw) ==
    LET v == ParseValue(raw, 0)
    IN  IF v.ok /\ SkipJsonWs(raw, v.i) = Len(raw) THEN v ELSE ParseFail

(***************************************************************************)
(* parseJsonl                                                              *)
(***************************************************************************)
\* content.split('\n'): the pieces between the separators, at least one.
RECURSIVE SplitFrom(_, _, _)
SplitFrom(t, k, cur) ==
    IF k >= Len(t) THEN <<cur>>
    ELSE IF At(t, k) = "\n" THEN <<cur>> \o SplitFrom(t, k + 1, <<>>)
    ELSE SplitFrom(t, k + 1, Append(cur, At(t, k)))

SplitLines(t) == SplitFrom(t, 0, <<>>)

\* String.prototype.trim()
RECURSIVE TrimStart(_)
TrimStart(t) == IF t # <<>> /\ IsSpace(Head(t)) THEN TrimStart(Tail(t)) ELSE t

RECURSIVE TrimEnd(_)
TrimEnd(t) ==
    IF t # <<>> /\ IsSpace(t[Len(t)]) THEN TrimEnd(SubSeq(t, 1, Len(t) - 1)) ELSE t

Trim(t) == TrimEnd(TrimStart(t))

\* A string is truthy when it is not empty.
Truthy(t) == t # <<>>

\* The value of `error` on a record that has none.
NoError == "undefined"

\* The callback of rawLines.map: one JsonLine from a raw line and its index.
ParseLine(raw, index) ==
    LET r == JsonParse(raw)
    IN  IF r.ok
        THEN [id |-> index + 1, raw |-> raw, parsed |-> r.val, error |-> NoError]
        ELSE [id |-> index + 1, raw |-> raw, parsed |-> JsNull, error |-> "Invalid JSON"]

KeepLine(line) == Truthy(Trim(line))

\* A variant that numbers the lines before the blank ones are dropped.
parseJsonl_NumberBeforeFilter(c) ==
    LET all == SplitLines(c)
        numbered == [n \in 1..Len(all) |-> ParseLine(all[n], n - 1)]
        KeepRecord(r) == KeepLine(r.raw)
    IN  SelectSeq(numbered, KeepRecord)

parseJsonl(c) ==
    LET rawLines == SelectSeq(SplitLines(c), KeepLine)
    IN  [n \in 1..Len(rawLines) |-> ParseLine(rawLines[n], n - 1)]

MaxLines == 3

\* The lines the ingested texts are assembled from.
LineCatalog ==
    { <<"{", "\"", "a", "\"", ":", "1", "}">>,
      <<"{", "\"", "b", "\"", ":", "2", "}">>,
      <<"n", "o", "t", "j", "s", "o", "n">>,
      <<"n", "u", "l", "l">>,
      <<"[", "1", ",", " ", "t", "r", "u", "e", "]">>,
      <<"\"", "J", "S", "\"">>,
      <<"{", "\"", "a", "\"", ":">>,
      <<>>,
      <<" ", "\t">>,
      <<" ", "7", "\r">> }

RECURSIVE JoinLines(_)
JoinLines(ls) ==
    IF ls = <<>> THEN <<>>
    ELSE IF Len(ls) = 1 THEN ls[1]
    ELSE ls[1] \o <<"\n">> \o JoinLines(Tail(ls))

\* Scenario A of the specification: {"a":1}\n{"b":2}\nnotjson\n
ScenarioA ==
    <<"{", "\"", "a", "\"", ":", "1", "}", "\n",
      "{", "\"", "b", "\"", ":", "2", "}", "\n",
      "n", "o", "t", "j", "s", "o", "n", "\n">>

IngestInputs ==
    {JoinLines(ls) : ls \in SeqsUpTo(LineCatalog, MaxLines)} \cup {ScenarioA}

InitIngest ==
    /\ CopyIdle
    /\ content \in IngestInputs
    /\ jsonLines = <<>>
    /\ ingestPc = "call"
    /\ TokIdle
    /\ ViewIdle
    /\ PanelIdle
    /\ TreeIdle
    /\ DocIdle

\* const parsed = parseJsonl(content);
ParseJsonlCall ==
    /\ ingestPc = "call"
    /\ jsonLines' = parseJsonl(content)
    /\ ingestPc' = "return"
    /\ UNCHANGED <<content, tokVars, viewVars, panelVars, treeVars, docVars, copyVars>>

NextIngest == ParseJsonlCall

SpecIngest == InitIngest /\ [][NextIngest]_vars

\* A line that is not whitespace-only, said without trim().
NonBlank(line) == \E n \in 1..Len(line) : ~IsSpace(line[n])

\* C1: parseJsonl returns one record per line that is not whitespace-only, in
\* input order, with ids 1..n, however many of the lines fail to parse.
C1_OneRecordPerLine ==
    ingestPc = "return" =>
        LET kept == SelectSeq(SplitLines(content), NonBlank)
        IN  /\ Len(jsonLines) = Len(kept)
            /\ \A n \in 1..Len(jsonLines) :
                  /\ jsonLines[n].id = n
                  /\ jsonLines[n].raw = kept[n]

\* Scenario A was ingested: three records, the third one failing to parse.
C1_Witness ==
    /\ ingestPc = "return"
    /\ content = ScenarioA
    /\ Len(jsonLines) = 3
    /\ jsonLines[1].error = NoError
    /\ jsonLines[2].error = NoError
    /\ jsonLines[3].error = "Invalid JSON"

\* The code's encoding of an absent value: parsed === null, error undefined.
HasParsed(line) == line.parsed # JsNull
HasError(line) == line.error # NoError

\* C2: every record has exactly one of parsed value / parse error present.
C2_ExactlyOne ==
    \A n \in 1..Len(jsonLines) : HasParsed(jsonLines[n]) # HasError(jsonLines[n])

(***************************************************************************)
(* displayLines                                                            *)
(***************************************************************************)
UpperLetters ==
    <<"A", "B", "C", "D", "E", "F", "G", "H", "I", "J", "K", "L", "M",
      "N", "O", "P", "Q", "R", "S", "T", "U", "V", "W", "X", "Y", "Z">>
LowerLetters ==
    <<"a", "b", "c", "d", "e", "f", "g", "h", "i", "j", "k", "l", "m",
      "n", "o", "p", "q", "r", "s", "t", "u", "v", "w", "x", "y", "z">>

LowerChar(c) ==
    IF \E n \in 1..26 : UpperLetters[n] = c
    THEN LowerLetters[CHOOSE n \in 1..26 : UpperLetters[n] = c]
    ELSE c

\* String.prototype.toLowerCase()
ToLowerCase(t) == [n \in 1..Len(t) |-> LowerChar(t[n])]

\* String.prototype.includes(needle)
Includes(t, needle) ==
    \E off \in 0..(Len(t) - Len(needle)) :
        SubSeq(t, off + 1, off + Len(needle)) = needle

\* Array.prototype.reverse() on a copy
Reverse(s) == [n \in 1..Len(s) |-> s[Len(s) + 1 - n]]

\* A variant that compares the raw text without lower-casing it.
DisplayLines_CaseSensitive(ls, f, order) ==
    LET lowerFilter == ToLowerCase(f)
        Matches(line) == Includes(line.raw, lowerFilter)
        filtered == IF Truthy(Trim(f)) THEN SelectSeq(ls, Matches) ELSE ls
    IN  IF order = "desc" THEN Reverse(filtered) ELSE filtered

\* A view whose sort direction is ignored.
DisplayLines_NoReverse(ls, f, order) ==
    LET lowerFilter == ToLowerCase(f)
        Matches(line) == Includes(ToLowerCase(line.raw), lowerFilter)
    IN  IF Truthy(Trim(f)) THEN SelectSeq(ls, Matches) ELSE ls

\* The body of the useMemo that computes displayLines.
DisplayLines(ls, f, order) ==
    LET lowerFilter == ToLowerCase(f)
        Matches(line) == Includes(ToLowerCase(line.raw), lowerFilter)
        filtered == IF Truthy(Trim(f)) THEN SelectSeq(ls, Matches) ELSE ls
    IN  IF order = "desc" THEN Reverse(filtered) ELSE filtered

\* The filter texts the view is computed for.
Filters ==
    { <<>>, <<" ">>, <<" ", "\t">>, <<"j", "s">>, <<"S", "O">>, <<"1">>,
      <<" ", "t">>, <<"1", " ">>, <<"z">> }

InitView ==
    /\ CopyIdle
    /\ \E c \in IngestInputs : lines = parseJsonl(c)
    /\ filter \in Filters
    /\ sortOrder \in {"asc", "desc"}
    /\ displayLines = <<>>
    /\ viewPc = "call"
    /\ TokIdle
    /\ IngestIdle
    /\ PanelIdle
    /\ TreeIdle
    /\ DocIdle

ComputeDisplayLines ==
    /\ viewPc = "call"
    /\ displayLines' = DisplayLines(lines, filter, sortOrder)
    /\ viewPc' = "return"
    /\ UNCHANGED <<lines, filter, sortOrder, tokVars, ingestVars, panelVars, treeVars, docVars, copyVars>>

NextView == ComputeDisplayLines

SpecView == InitView /\ [][NextView]_vars

UpperChar(c) ==
    IF \E n \in 1..26 : LowerLetters[n] = c
    THEN UpperLetters[CHOOSE n \in 1..26 : LowerLetters[n] = c]
    ELSE c

\* raw contains f as a substring when letters are compared without case.
ContainsIgnoringCase(raw, f) ==
    \E off \in 0..(Len(raw) - Len(f)) :
        \A n \in 1..Len(f) : UpperChar(raw[off + n]) = UpperChar(f[n])

\* How many times the record with this id is in the view.
Occurrences(view, id) == Cardinality({n \in 1..Len(view) : view[n].id = id})

WhitespaceOnly(f) == \A n \in 1..Len(f) : IsSpace(f[n])

\* The records of the view, in the order in which they were ingested.
InIngestionOrder(view) ==
    LET Kept(line) == \E n \in 1..Len(view) : view[n] = line
    IN  SelectSeq(lines, Kept)

\* C12: the ascending view is the kept records in ingestion order, and the
\* descending view is that same sequence read from its end to its start.
C12_DescendingReversesAscending ==
    viewPc = "return" =>
        LET asc == InIngestionOrder(displayLines)
        IN  /\ Len(displayLines) = Len(asc)
            /\ sortOrder = "asc" =>
                  /\ displayLines = asc
                  /\ \A n \in 1..Len(asc) :
                        DisplayLines(lines, filter, "desc")[n] = asc[Len(asc) + 1 - n]
            /\ sortOrder = "desc" =>
                  /\ \A n \in 1..Len(asc) : displayLines[n] = asc[Len(asc) + 1 - n]
                  /\ DisplayLines(lines, filter, "asc") = asc

\* A descending view of at least two records, the later-ingested one first.
C12_Witness ==
    /\ viewPc = "return"
    /\ sortOrder = "desc"
    /\ Len(displayLines) >= 2
    /\ Len(displayLines) < Len(lines)
    /\ displayLines[1].id > displayLines[2].id

\* C3 as stated: the view holds exactly the records whose raw text contains
\* the filter text case-insensitively, each once, for every filter text.
C3_Original ==
    viewPc = "return" =>
        \A n \in 1..Len(lines) :
            /\ lines[n] \in {displayLines[m] : m \in 1..Len(displayLines)}
                  <=> ContainsIgnoringCase(lines[n].raw, filter)
            /\ Occurrences(displayLines, lines[n].id) <= 1

\* C3, amended: a filter text that is empty or whitespace-only keeps every
\* record; any other filter text (its leading and trailing whitespace
\* included) keeps exactly the records whose raw text contains it
\* case-insensitively; each kept record is in the view once, in either sort
\* direction.
C3_FilterKeeps ==
    viewPc = "return" =>
        \A n \in 1..Len(lines) :
            LET kept == WhitespaceOnly(filter)
                           \/ ContainsIgnoringCase(lines[n].raw, filter)
            IN  /\ kept => Occurrences(displayLines, lines[n].id) = 1
                /\ kept => lines[n] \in {displayLines[m] : m \in 1..Len(displayLines)}
                /\ ~kept => Occurrences(displayLines, lines[n].id) = 0
                /\ \A m \in 1..Len(displayLines) :
                      displayLines[m] \in {lines[k] : k \in 1..Len(lines)}

\* A whitespace-only filter over a record without whitespace kept it, and a
\* filter with a leading space dropped a record that lacks the space.
C3_Witness ==
    /\ viewPc = "return"
    /\ sortOrder = "desc"
    /\ \/ /\ filter = <<" ">>
          /\ Len(lines) = 2
          /\ Len(displayLines) = 2
          /\ ~Includes(lines[1].raw, <<" ">>)
       \/ /\ filter = <<" ", "t">>
          /\ Len(lines) = 2
          /\ Len(displayLines) = 1

(***************************************************************************)
(* Home: the open documents                                                *)
(***************************************************************************)
\* The FileData that addFile builds; id stands for generateFileId().
NewFile(id, name, c) ==
    [id |-> id, name |-> name, lines |-> parseJsonl(c),
     filter |-> <<>>, sortOrder |-> "asc"]

\* files.findIndex(f => f.id === id), 1-based; 0 when there is none.
FindFile(fs, id) ==
    IF \E n \in 1..Len(fs) : fs[n].id = id
    THEN CHOOSE n \in 1..Len(fs) :
            /\ fs[n].id = id
            /\ \A m \in 1..(n - 1) : fs[m].id # id
    ELSE 0

\* const lines = activeFile?.lines || [];
ActiveLines(fs, active) ==
    IF FindFile(fs, active) # 0 THEN fs[FindFile(fs, active)].lines ELSE <<>>

\* const filter = activeFile?.filter || '';
ActiveFilter(fs, active) ==
    IF FindFile(fs, active) # 0 THEN fs[FindFile(fs, active)].filter ELSE <<>>

\* const sortOrder = activeFile?.sortOrder || 'asc';
ActiveSortOrder(fs, active) ==
    IF FindFile(fs, active) # 0 THEN fs[FindFile(fs, active)].sortOrder ELSE "asc"

(***************************************************************************)
(* The detail panel of Home, with TreeView and TreeNode                    *)
(*                                                                         *)
(* A tree node is named by its location: the child indices leading to it   *)
(* from the root.  Its path is the string TreeNode builds for it.          *)
(***************************************************************************)
RootPath == <<"r", "o", "o", "t">>

\* String(index) for an array index
RECURSIVE DecimalDigits(_)
DecimalDigits(n) ==
    LET d == <<"0", "1", "2", "3", "4", "5", "6", "7", "8", "9">>[(n % 10) + 1]
    IN  IF n < 10 THEN <<d>> ELSE Append(DecimalDigits(n \div 10), d)

\* `${path}[${index}]`
IndexPath(path, index) == path \o <<"[">> \o DecimalDigits(index) \o <<"]">>

\* `${path}.${k}`
KeyPath(path, k) == path \o <<".">> \o k

\* const isExpandable = value !== null && typeof value === 'object';
IsExpandable(value) == value.kind \in {"array", "object"}

\* The children TreeNode renders for an expanded value, with their paths.
Children(value, path) ==
    IF value.kind = "array"
    THEN [n \in 1..Len(value.val) |->
            [value |-> value.val[n], path |-> IndexPath(path, n - 1)]]
    ELSE [n \in 1..Len(value.val) |->
            [value |-> value.val[n].value, path |-> KeyPath(path, value.val[n].key)]]

\* The TreeNode elements rendered for `value` at `path`: the node itself and,
\* when it is expandable and its path is in expandedPaths, its children's.
RECURSIVE TreeNodes(_, _, _, _)
TreeNodes(value, path, loc, expanded) ==
    {[loc |-> loc, path |-> path, value |-> value]}
      \cup
    IF IsExpandable(value) /\ path \in expanded
    THEN UNION { TreeNodes(Children(value, path)[n].value,
                           Children(value, path)[n].path,
                           Append(loc, n), expanded) :
                 n \in 1..Len(value.val) }
    ELSE {}

\* lines.find(line => line.id === selectedId): its index, 0 when there is none.
FindLine(ls, id) ==
    IF \E n \in 1..Len(ls) : ls[n].id = id
    THEN CHOOSE n \in 1..Len(ls) :
            /\ ls[n].id = id
            /\ \A m \in 1..(n - 1) : ls[m].id # id
    ELSE 0

\* selectedLine is not null
HasSelectedLine(ls, id) == id # NullId /\ FindLine(ls, id) # 0

\* selectedLine, when it is not null
SelectedLine(ls, id) == ls[FindLine(ls, id)]

\* The detail panel renders <TreeView data={selectedLine.parsed} />.
RendersTreeView(ls, id, tab) ==
    /\ HasSelectedLine(ls, id)
    /\ SelectedLine(ls, id).error = NoError
    /\ tab = "tree"

\* TreeView's useState initial values.
TreeViewInitial(mounted, path, value, expanded) ==
    /\ mounted = TRUE
    /\ path = JsNull
    /\ value = JsNull
    /\ expanded = {RootPath}

\* The render that follows a state change of Home.  The TreeView element has
\* no key: an instance that is rendered before and after keeps its state, a
\* newly rendered one starts from the initial state, and one no longer
\* rendered is unmounted.
RenderDetail(ls, id, tab) ==
    IF RendersTreeView(ls, id, tab)
    THEN IF treeViewMounted
         THEN UNCHANGED treeVars
         ELSE TreeViewInitial(treeViewMounted', selectedPath', selectedValue',
                              expandedPaths')
    ELSE /\ treeViewMounted' = FALSE
         /\ selectedPath' = JsNull
         /\ selectedValue' = JsNull
         /\ expandedPaths' = {}

\* The TreeNode elements on screen.
RenderedTreeNodes ==
    IF /\ treeViewMounted
       /\ IsExpandable(SelectedLine(lines, selectedId).parsed)
    THEN TreeNodes(SelectedLine(lines, selectedId).parsed, RootPath, <<>>,
                   expandedPaths)
    ELSE {}

\* onClick={() => setSelectedId(line.id)} on a row of the list
RowClick(index) ==
    /\ files # <<>>
    /\ index \in 1..Len(displayLines)
    /\ selectedId' = displayLines[index].id
    /\ RenderDetail(lines, selectedId', viewTab)
    /\ UNCHANGED <<viewTab, tokVars, ingestVars, viewVars, docVars, copyVars>>

\* onClick={() => setViewTab(tab)} on a tab button of the detail panel
SetViewTab(tab) ==
    /\ HasSelectedLine(lines, selectedId)
    /\ viewTab' = tab
    /\ RenderDetail(lines, selectedId, viewTab')
    /\ UNCHANGED <<selectedId, tokVars, ingestVars, viewVars, docVars, copyVars>>

\* A toggle that only ever expands.
ToggledPaths_AddOnly(prev, path) == prev \cup {path}

\* handleToggleExpand
ToggledPaths(prev, path) ==
    IF path \in prev THEN prev \ {path} ELSE prev \cup {path}

\* handleToggle of a rendered TreeNode: if (isExpandable) onToggleExpand(path)
ToggleExpand(node) ==
    /\ node \in RenderedTreeNodes
    /\ IsExpandable(node.value)
    /\ expandedPaths' = ToggledPaths(expandedPaths, node.path)
    /\ UNCHANGED <<treeViewMounted, selectedPath, selectedValue, panelVars,
                   tokVars, ingestVars, viewVars, docVars, copyVars>>

\* handleClick of a rendered TreeNode: onSelect(path, value)
SelectNode(node) ==
    /\ node \in RenderedTreeNodes
    /\ selectedPath' = JsString(node.path)
    /\ selectedValue' = node.value
    /\ UNCHANGED <<treeViewMounted, expandedPaths, panelVars,
                   tokVars, ingestVars, viewVars, docVars, copyVars>>

\* {"a":{"b":[1]},"a.b":[2]}
TreeLineA ==
    <<"{", "\"", "a", "\"", ":", "{", "\"", "b", "\"", ":", "[", "1", "]", "}",
      ",", "\"", "a", ".", "b", "\"", ":", "[", "2", "]", "}">>

\* {"a":{"c":2}}
TreeLineB ==
    <<"{", "\"", "a", "\"", ":", "{", "\"", "c", "\"", ":", "2", "}", "}">>

\* [[1],null]
TreeLineC == <<"[", "[", "1", "]", ",", "n", "u", "l", "l", "]">>

\* The documents whose records the detail panel shows.
TreeInputs ==
    { JoinLines(<<TreeLineA, TreeLineB>>),
      JoinLines(<<TreeLineB, TreeLineC, <<"n", "o", "t", "j", "s", "o", "n">>>>),
      JoinLines(<<TreeLineC, <<"7">>, TreeLineA>>) }

\* One document has been loaded and is the active one.
InitTree ==
    /\ CopyIdle
    /\ \E c \in TreeInputs :
          /\ loaded = <<[name |-> "a.jsonl", content |-> c]>>
          /\ files = <<NewFile(1, "a.jsonl", c)>>
    /\ activeFileId = 1
    /\ pending = <<>>
    /\ generated = 1
    /\ closed = {}
    /\ lines = ActiveLines(files, activeFileId)
    /\ filter = ActiveFilter(files, activeFileId)
    /\ sortOrder = ActiveSortOrder(files, activeFileId)
    /\ displayLines = DisplayLines(lines, filter, sortOrder)
    /\ viewPc = "return"
    /\ PanelIdle
    /\ TreeIdle
    /\ TokIdle
    /\ IngestIdle

NextTree ==
    \/ \E index \in 1..Len(displayLines) : RowClick(index)
    \/ \E tab \in {"raw", "pretty", "tree"} : SetViewTab(tab)
    \/ \E node \in RenderedTreeNodes : ToggleExpand(node)
    \/ \E node \in RenderedTreeNodes : SelectNode(node)

SpecTree == InitTree /\ [][NextTree]_vars

\* C5: two distinct tree nodes of one root never get the same path string.
C5_UniquePaths ==
    \A n1, n2 \in RenderedTreeNodes : n1.path = n2.path => n1.loc = n2.loc

\* C6: when a different record is selected while the tree tab stays open, the
\* tree view of the new record has the expansion set {root} and no inspected
\* node.
C6_ScopedToRecord ==
    [][ ( /\ selectedId' # selectedId
          /\ treeViewMounted' )
        => ( /\ expandedPaths' = {RootPath}
             /\ selectedPath' = JsNull
             /\ selectedValue' = JsNull ) ]_vars

\* The paths of the TreeNode elements on screen that can be toggled.
ExpandablePaths ==
    { node.path : node \in { n \in RenderedTreeNodes : IsExpandable(n.value) } }

\* C11: toggling a path flips the membership of that path and of no other
\* path, and toggling the same path twice gives back the original set; a
\* click on a node's toggle changes the expansion set in exactly that path.
C11_ToggleInvolution ==
    /\ [](\A p \in ExpandablePaths \cup expandedPaths :
            LET once  == ToggledPaths(expandedPaths, p)
                twice == ToggledPaths(once, p)
            IN  /\ (p \in once) <=> (p \notin expandedPaths)
                /\ \A q \in (ExpandablePaths \cup expandedPaths \cup once) \ {p} :
                      (q \in once) <=> (q \in expandedPaths)
                /\ twice = expandedPaths)
    /\ [][ ( /\ treeViewMounted /\ treeViewMounted'
             /\ selectedId' = selectedId
             /\ expandedPaths' # expandedPaths )
           => \E p \in ExpandablePaths :
                 /\ (p \in expandedPaths') <=> (p \notin expandedPaths)
                 /\ expandedPaths' \ {p} = expandedPaths \ {p} ]_vars

\* The root has been collapsed after one of its children was expanded.
C11_Witness ==
    /\ treeViewMounted
    /\ RootPath \notin expandedPaths
    /\ expandedPaths # {}

(***************************************************************************)
(* Home: the handlers of the document container.  Each action is one       *)
(* event handler together with the render that follows it.                 *)
(***************************************************************************)
MaxLoads == 2
MaxDrop == 2

\* null\n\n{"b":2}
ContentB ==
    <<"n", "u", "l", "l", "\n", "\n", "{", "\"", "b", "\"", ":", "2", "}">>

\* The files the user can drop or pick.
FileChoices ==
    { [name |-> "a.jsonl", content |-> ScenarioA],
      [name |-> "b.log", content |-> ContentB] }

\* The texts the user types into the filter input.
FilterEdits == { <<>>, <<"j", "s", "o", "n">>, <<"B">> }

\* The render of Home: the values derived from files and activeFileId.
Render(fs, active) ==
    /\ lines' = ActiveLines(fs, active)
    /\ filter' = ActiveFilter(fs, active)
    /\ sortOrder' = ActiveSortOrder(fs, active)
    /\ displayLines' = DisplayLines(lines', filter', sortOrder')
    /\ viewPc' = "return"

RemoveAt(q, k) == SubSeq(q, 1, k - 1) \o SubSeq(q, k + 1, Len(q))

\* droppedFiles.forEach(file => { ...; reader.readAsText(file); })
StartReads(fs) ==
    /\ fs # <<>>
    /\ generated + Len(pending) + Len(fs) <= MaxLoads
    /\ pending' = pending \o fs
    /\ UNCHANGED <<files, activeFileId, generated, loaded, closed, panelVars,
                   treeVars, viewVars, tokVars, ingestVars, copyVars>>

handleDrop(droppedFiles) == StartReads(droppedFiles)

handleFileInput(inputFiles) == StartReads(inputFiles)

\* A variant of the update that replaces the list by the new file alone.
AddedFiles_Overwrite(prev, newFile) == <<newFile>>

\* setFiles(prev => [...prev, newFile])
AddedFiles(prev, newFile) == Append(prev, newFile)

\* An addFile that leaves the selection as it is.
addFile_KeepSelection(name, c) ==
    LET newFile == NewFile(generated + 1, name, c)
    IN  /\ generated' = generated + 1
        /\ files' = AddedFiles(files, newFile)
        /\ activeFileId' = newFile.id
        /\ selectedId' = selectedId

\* addFile
addFile(name, c) ==
    LET newFile == NewFile(generated + 1, name, c)
    IN  /\ generated' = generated + 1
        /\ files' = AddedFiles(files, newFile)
        /\ activeFileId' = newFile.id
        /\ selectedId' = NullId

\* reader.onload of the k-th read in flight: addFile(file.name, content)
ReaderOnLoad(k) ==
    /\ k \in 1..Len(pending)
    /\ addFile(pending[k].name, pending[k].content)
    /\ loaded' = Append(loaded, pending[k])
    /\ pending' = RemoveAt(pending, k)
    /\ Render(files', activeFileId')
    /\ RenderDetail(lines', selectedId', viewTab)
    /\ UNCHANGED <<closed, viewTab, tokVars, ingestVars, copyVars>>

\* The k-th read in flight fails: the reader has no error handler.
ReaderOnError(k) ==
    /\ k \in 1..Len(pending)
    /\ pending' = RemoveAt(pending, k)
    /\ UNCHANGED <<files, activeFileId, generated, loaded, closed, panelVars,
                   treeVars, viewVars, tokVars, ingestVars, copyVars>>

\* onClick of a file tab: setActiveFileId(file.id); setSelectedId(null);
TabClick(fileId) ==
    /\ \E n \in 1..Len(files) : files[n].id = fileId
    /\ activeFileId' = fileId
    /\ selectedId' = NullId
    /\ Render(files, activeFileId')
    /\ RenderDetail(lines', selectedId', viewTab)
    /\ UNCHANGED <<files, pending, generated, loaded, closed, viewTab,
                   tokVars, ingestVars, copyVars>>

\* prev.filter(f => f.id !== fileId)
FilesWithout(prev, fileId) ==
    LET Other(f) == f.id # fileId
    IN  SelectSeq(prev, Other)

\* A variant that leaves the active id alone when the active tab is closed.
ActiveAfterClose_Unchanged(prev, active, fileId) == active

\* The value of activeFileId after closeFile(fileId) ran with the files prev.
ActiveAfterClose(prev, active, fileId) ==
    LET newFiles == FilesWithout(prev, fileId)
        idx == FindFile(prev, fileId) - 1
    IN  IF active = fileId
        THEN IF Len(newFiles) > 0
             THEN newFiles[Min(idx, Len(newFiles) - 1) + 1].id
             ELSE NullFile
        ELSE active

\* closeFile
closeFile(fileId) ==
    /\ \E n \in 1..Len(files) : files[n].id = fileId
    /\ files' = FilesWithout(files, fileId)
    /\ activeFileId' = ActiveAfterClose(files, activeFileId, fileId)
    /\ selectedId' = IF activeFileId = fileId THEN NullId ELSE selectedId
    /\ closed' = closed \cup {fileId}
    /\ Render(files', activeFileId')
    /\ RenderDetail(lines', selectedId', viewTab)
    /\ UNCHANGED <<pending, generated, loaded, viewTab, tokVars, ingestVars, copyVars>>

\* A variant that sets the filter of every file.
FilesWithFilter_All(prev, active, newFilter) ==
    [n \in 1..Len(prev) |-> [prev[n] EXCEPT !.filter = newFilter]]

\* prev.map(f => f.id === activeFileId ? { ...f, filter: newFilter } : f)
FilesWithFilter(prev, active, newFilter) ==
    [n \in 1..Len(prev) |->
        IF prev[n].id = active THEN [prev[n] EXCEPT !.filter = newFilter]
        ELSE prev[n]]

\* prev.map(f => f.id === activeFileId ? { ...f, sortOrder: newOrder } : f)
FilesWithSortOrder(prev, active, newOrder) ==
    [n \in 1..Len(prev) |->
        IF prev[n].id = active THEN [prev[n] EXCEPT !.sortOrder = newOrder]
        ELSE prev[n]]

\* setFilter, from the filter input (rendered when a file is open)
setFilter(newFilter) ==
    /\ files # <<>>
    /\ files' = FilesWithFilter(files, activeFileId, newFilter)
    /\ Render(files', activeFileId)
    /\ RenderDetail(lines', selectedId, viewTab)
    /\ UNCHANGED <<activeFileId, pending, generated, loaded, closed, panelVars,
                   tokVars, ingestVars, copyVars>>

\* setSortOrder(sortOrder === 'asc' ? 'desc' : 'asc'), from the sort button
ToggleSortOrder ==
    /\ files # <<>>
    /\ files' = FilesWithSortOrder(files, activeFileId,
                                   IF sortOrder = "asc" THEN "desc" ELSE "asc")
    /\ Render(files', activeFileId)
    /\ RenderDetail(lines', selectedId, viewTab)
    /\ UNCHANGED <<activeFileId, pending, generated, loaded, closed, panelVars,
                   tokVars, ingestVars, copyVars>>

\* Home after its first render: no file is open.
Init ==
    /\ CopyIdle
    /\ DocIdle
    /\ PanelIdle
    /\ TreeIdle
    /\ lines = <<>>
    /\ filter = <<>>
    /\ sortOrder = "asc"
    /\ displayLines = <<>>
    /\ viewPc = "return"
    /\ TokIdle
    /\ IngestIdle

Drops == SeqsUpTo(FileChoices, MaxDrop) \ {<<>>}

Next ==
    \/ \E fs \in Drops : handleDrop(fs)
    \/ \E fs \in Drops : handleFileInput(fs)
    \/ \E k \in 1..MaxLoads : ReaderOnLoad(k)
    \/ \E k \in 1..MaxLoads : ReaderOnError(k)
    \/ \E id \in 1..MaxLoads : TabClick(id)
    \/ \E id \in 1..MaxLoads : closeFile(id)
    \/ \E f \in FilterEdits : setFilter(f)
    \/ ToggleSortOrder
    \/ \E index \in 1..Len(displayLines) : RowClick(index)

Spec == Init /\ [][Next]_vars

\* The ids of the records of a sequence of lines.
LineIds(ls) == {ls[n].id : n \in 1..Len(ls)}

\* How many open documents have this id.
OpenCount(id) == Cardinality({n \in 1..Len(files) : files[n].id = id})

\* C4: when the selected record id is not among the records of the current
\* view, the detail panel does not present that record as the selected line.
C4_StaleSelectionHidden ==
    (selectedId # NullId /\ selectedId \notin LineIds(displayLines))
        => ~HasSelectedLine(lines, selectedId)

\* C8: each completed read is one open document (none once the user closed
\* it), the documents are in completion order, and each holds the complete
\* record sequence of its file.
C8_EachLoadOneDocument ==
    /\ Len(loaded) = generated
    /\ \A id \in 1..Len(loaded) :
          OpenCount(id) = IF id \in closed THEN 0 ELSE 1
    /\ \A n \in 1..Len(files) :
          /\ files[n].id \in 1..Len(loaded)
          /\ files[n].name = loaded[files[n].id].name
          /\ files[n].lines = parseJsonl(loaded[files[n].id].content)
    /\ \A n, m \in 1..Len(files) : n < m => files[n].id < files[m].id

\* Two different files were loaded and the first document was filtered and
\* re-sorted by the user.
C8_Witness ==
    /\ Len(files) = 2
    /\ pending = <<>>
    /\ files[1].name # files[2].name
    /\ files[1].filter # <<>>
    /\ files[1].sortOrder = "desc"

\* C9: a filter edit or sort toggle changes only the active document's
\* filter / sort field: every document's lines stay its ingestion result,
\* the other documents are unchanged, and with no active document the edit
\* changes nothing.
C9_OnlyActivePresentation ==
    /\ [](\A n \in 1..Len(files) :
            files[n].lines = parseJsonl(loaded[files[n].id].content))
    /\ [][ ( /\ files' # files
             /\ Len(files') = Len(files)
             /\ \A n \in 1..Len(files) : files'[n].id = files[n].id )
           => \A n \in 1..Len(files) :
                 /\ files'[n].lines = files[n].lines
                 /\ files'[n].name = files[n].name
                 /\ files[n].id # activeFileId => files'[n] = files[n] ]_vars
    /\ [](\A f \in FilterEdits :
            /\ FilesWithFilter(files, NullFile, f) = files
            /\ FilesWithSortOrder(files, NullFile, "desc") = files)

\* Two documents are open with different filters and sort directions.
C9_Witness ==
    /\ Len(files) = 2
    /\ files[1].filter = <<"j", "s", "o", "n">>
    /\ files[2].filter = <<>>
    /\ files[1].sortOrder = "asc"
    /\ files[2].sortOrder = "desc"

\* C10: while a document is open the active id is the id of exactly one open
\* document; when none is open it is null.
C10_OneActive ==
    IF files = <<>>
    THEN activeFileId = NullFile
    ELSE activeFileId # NullFile /\ OpenCount(activeFileId) = 1

\* Two documents were opened and one was closed, leaving the other active;
\* or both were closed.
C10_Witness ==
    /\ generated = 2
    /\ \/ closed = {1} /\ activeFileId = 2
       \/ closed = {2} /\ activeFileId = 1
       \/ closed = {1, 2} /\ activeFileId = NullFile

MaxFrags == 3

\* The pieces the tokenizer's input texts are assembled from.
Fragments ==
    { <<"\"">>, <<"\\">>, <<" ">>, <<"\n">>, <<"1">>, <<"-">>, <<"e">>,
      <<".">>, <<":">>, <<"{">>, <<",">>, <<"x">>,
      <<"t", "r", "u", "e">>, <<"f", "a", "l", "s", "e">>,
      <<"n", "u", "l", "l">>, <<"t", "r", "u">> }

\* Scenario C of the specification: {"k":"v"}
ScenarioC == <<"{", "\"", "k", "\"", ":", "\"", "v", "\"", "}">>

ScenarioTexts ==
    { ScenarioC,
      <<"\"", "a", "\\", "\"", "b", "\"", " ", ":", "1">>,
      <<"[", "-", "1", ".", "5", "e", "+", "2", ",", "n", "u", "l", "l", "]">>,
      <<"\"", "k", "\"", " ", "\n", ":", "t", "r", "u", "e">>,
      <<"\"", "a", "\\">> }

TokInputs == {Flatten(fs) : fs \in SeqsUpTo(Fragments, MaxFrags)} \cup ScenarioTexts

\* while (i < text.length && /\s/.test(text[i])) ws += text[i++];
RECURSIVE ScanWhitespace(_, _, _)
ScanWhitespace(t, k, ws) ==
    IF k < Len(t) /\ IsSpace(At(t, k))
    THEN ScanWhitespace(t, k + 1, Append(ws, At(t, k)))
    ELSE [i |-> k, value |-> ws]

\* A variant that skips a backslash without copying it.
RECURSIVE ScanStringBody_DropBackslash(_, _, _)
ScanStringBody_DropBackslash(t, k, str) ==
    IF k < Len(t) /\ At(t, k) # "\""
    THEN IF At(t, k) = "\\" /\ k + 1 < Len(t)
         THEN ScanStringBody_DropBackslash(t, k + 2, Append(str, At(t, k + 1)))
         ELSE ScanStringBody_DropBackslash(t, k + 1, Append(str, At(t, k)))
    ELSE [i |-> k, value |-> str]

\* while (i < text.length && text[i] !== '"') {
\*   if (text[i] === '\\' && i + 1 < text.length) str += text[i++];
\*   str += text[i++]; }
RECURSIVE ScanStringBody(_, _, _)
ScanStringBody(t, k, str) ==
    IF k < Len(t) /\ At(t, k) # "\""
    THEN IF At(t, k) = "\\" /\ k + 1 < Len(t)
         THEN ScanStringBody(t, k + 2, str \o <<At(t, k), At(t, k + 1)>>)
         ELSE ScanStringBody(t, k + 1, Append(str, At(t, k)))
    ELSE [i |-> k, value |-> str]

\* let str = '"'; i++; <body loop>; if (i < text.length) str += text[i++];
ScanString(t, k) ==
    LET body == ScanStringBody(t, k + 1, <<"\"">>)
    IN  IF body.i < Len(t)
        THEN [i |-> body.i + 1, value |-> Append(body.value, At(t, body.i))]
        ELSE body

\* let j = i; while (j < text.length && /\s/.test(text[j])) j++;
RECURSIVE SkipSpace(_, _)
SkipSpace(t, j) ==
    IF j < Len(t) /\ IsSpace(At(t, j)) THEN SkipSpace(t, j + 1) ELSE j

\* A look-ahead that does not skip whitespace.
IsKey_Adjacent(t, k) == At(t, k) = ":"

\* const isKey = text[j] === ':';
IsKey(t, k) == At(t, SkipSpace(t, k)) = ":"

\* /[-\d]/
IsNumberStart(c) == c = "-" \/ IsDigit(c)

\* A continuation class that leaves out the minus sign.
IsNumberChar_NoMinus(c) == c \in {".", "e", "E", "+"} \/ IsDigit(c)

\* /[-\d.eE+]/
IsNumberChar(c) == c \in {"-", ".", "e", "E", "+"} \/ IsDigit(c)

\* while (i < text.length && /[-\d.eE+]/.test(text[i])) num += text[i++];
RECURSIVE ScanNumber(_, _, _)
ScanNumber(t, k, num) ==
    IF k < Len(t) /\ IsNumberChar(At(t, k))
    THEN ScanNumber(t, k + 1, Append(num, At(t, k)))
    ELSE [i |-> k, value |-> num]

IsPunctuation(c) == c \in {"{", "}", "[", "]", ",", ":"}

Token(type, value) == [type |-> type, value |-> value]

\* tokens.push(tok); the loop index becomes k.
Emit(tok, k) ==
    /\ tokens' = Append(tokens, tok)
    /\ tokI' = k
    /\ UNCHANGED <<text, ingestVars, viewVars, panelVars, treeVars, docVars, copyVars>>

TokWhitespace ==
    /\ tokI < Len(text)
    /\ IsSpace(At(text, tokI))
    /\ LET r == ScanWhitespace(text, tokI, <<>>)
       IN  Emit(Token("whitespace", r.value), r.i)

TokString ==
    /\ tokI < Len(text)
    /\ ~IsSpace(At(text, tokI))
    /\ At(text, tokI) = "\""
    /\ LET r == ScanString(text, tokI)
       IN  Emit(Token(IF IsKey(text, r.i) THEN "key" ELSE "string", r.value), r.i)

TokNumber ==
    /\ tokI < Len(text)
    /\ ~IsSpace(At(text, tokI))
    /\ At(text, tokI) # "\""
    /\ IsNumberStart(At(text, tokI))
    /\ LET r == ScanNumber(text, tokI, <<>>)
       IN  Emit(Token("number", r.value), r.i)

\* None of the whitespace, string and number rules applies at index i.
PastNumber ==
    /\ tokI < Len(text)
    /\ ~IsSpace(At(text, tokI))
    /\ At(text, tokI) # "\""
    /\ ~IsNumberStart(At(text, tokI))

TokTrue ==
    /\ PastNumber
    /\ Slice(text, tokI, tokI + 4) = LitTrue
    /\ Emit(Token("boolean", LitTrue), tokI + 4)

TokFalse ==
    /\ PastNumber
    /\ Slice(text, tokI, tokI + 4) # LitTrue
    /\ Slice(text, tokI, tokI + 5) = LitFalse
    /\ Emit(Token("boolean", LitFalse), tokI + 5)

TokNull ==
    /\ PastNumber
    /\ Slice(text, tokI, tokI + 4) # LitTrue
    /\ Slice(text, tokI, tokI + 5) # LitFalse
    /\ Slice(text, tokI, tokI + 4) = LitNull
    /\ Emit(Token("null", LitNull), tokI + 4)

\* None of the literal rules applies either.
PastLiterals ==
    /\ PastNumber
    /\ Slice(text, tokI, tokI + 4) # LitTrue
    /\ Slice(text, tokI, tokI + 5) # LitFalse
    /\ Slice(text, tokI, tokI + 4) # LitNull

TokPunctuation ==
    /\ PastLiterals
    /\ IsPunctuation(At(text, tokI))
    /\ Emit(Token("punctuation", <<At(text, tokI)>>), tokI + 1)

TokOther ==
    /\ PastLiterals
    /\ ~IsPunctuation(At(text, tokI))
    /\ Emit(Token("other", <<At(text, tokI)>>), tokI + 1)

\* The loop condition is false: highlightJson returns `tokens`.
TokDone == tokI >= Len(text)

InitTok ==
    /\ CopyIdle
    /\ text \in TokInputs
    /\ tokI = 0
    /\ tokens = <<>>
    /\ IngestIdle
    /\ ViewIdle
    /\ PanelIdle
    /\ TreeIdle
    /\ DocIdle

NextTok ==
    \/ TokWhitespace
    \/ TokString
    \/ TokNumber
    \/ TokTrue
    \/ TokFalse
    \/ TokNull
    \/ TokPunctuation
    \/ TokOther

SpecTok == InitTok /\ [][NextTok]_vars

\* The loop is sequential code: while its condition holds, the next iteration
\* is executed.
SpecTokFair == InitTok /\ [][NextTok]_vars /\ WF_vars(NextTok)

\* The texts of a token sequence, concatenated in order.
RECURSIVE ConcatValues(_)
ConcatValues(ts) ==
    IF ts = <<>> THEN <<>> ELSE Head(ts).value \o ConcatValues(Tail(ts))

\* C7: when highlightJson returns, the token texts concatenated in order are
\* the input text, whatever the input (unterminated strings, a trailing
\* backslash, invalid number shapes and unrecognized characters included).
C7_RoundTrip == TokDone => ConcatValues(tokens) = text

\* An unterminated string ending in a backslash was tokenized to the end.
C7_Witness ==
    /\ TokDone
    /\ text = <<"\"", "a", "\\">>
    /\ Len(tokens) = 1

\* The position in the text (counted from 1) of the first character of the
\* n-th token.
TokenStart(n) == Len(ConcatValues(SubSeq(tokens, 1, n - 1))) + 1

\* The character at position p, after the opening quote at position s, is
\* consumed by a backslash: the character before it is a backslash that is
\* itself not consumed.
RECURSIVE ConsumedByBackslash(_, _, _)
ConsumedByBackslash(t, s, p) ==
    /\ p - 1 > s
    /\ t[p - 1] = "\\"
    /\ ~ConsumedByBackslash(t, s, p - 1)

\* The last position of the string token opened at position s.
StringTokenEnd(t, s) ==
    LET closers == { p \in (s + 1)..Len(t) :
                        t[p] = "\"" /\ ~ConsumedByBackslash(t, s, p) }
    IN  IF closers = {} THEN Len(t)
        ELSE CHOOSE p \in closers : \A q \in closers : p <= q

\* The first character after position e that is not whitespace is a colon.
ColonFollows(t, e) ==
    LET rest == { p \in (e + 1)..Len(t) : ~IsSpace(t[p]) }
    IN  /\ rest # {}
        /\ t[CHOOSE p \in rest : \A q \in rest : p <= q] = ":"

\* C13: a token that starts at a double quote runs to the first double quote
\* not consumed by a backslash, or to the end of the input when there is
\* none; it is a key exactly when the first non-whitespace character after
\* it is a colon and a string otherwise; no other token is a key or a string;
\* {"k":"v"} gives punctuation {, key "k", punctuation :, string "v",
\* punctuation }.
C13_StringTokens ==
    /\ \A n \in 1..Len(tokens) :
          LET s == TokenStart(n)
              e == StringTokenEnd(text, s)
          IN  /\ tokens[n].type \in {"key", "string"} <=> text[s] = "\""
              /\ text[s] = "\"" =>
                    /\ tokens[n].value = SubSeq(text, s, e)
                    /\ tokens[n].type = "key" <=> ColonFollows(text, e)
    /\ (text = ScenarioC /\ TokDone) =>
          tokens = << Token("punctuation", <<"{">>),
                      Token("key", <<"\"", "k", "\"">>),
                      Token("punctuation", <<":">>),
                      Token("string", <<"\"", "v", "\"">>),
                      Token("punctuation", <<"}">>) >>

\* Scenario C has been tokenized to the end.
C13_Witness ==
    /\ text = ScenarioC
    /\ TokDone
    /\ Len(tokens) = 5

\* A key separated from its colon by whitespace, with an escaped quote in it.
C13_WitnessEscaped ==
    /\ TokDone
    /\ \E n \in 1..Len(tokens) :
          /\ tokens[n].type = "key"
          /\ \E m \in 2..(Len(tokens[n].value) - 1) : tokens[n].value[m] = "\""
          /\ n < Len(tokens) /\ tokens[n + 1].type = "whitespace"

\* C14: every iteration of the loop moves the index forward by at least one
\* character without passing the end of the text, and appends exactly one
\* token, whose text is not empty (one character for a token of kind
\* other); while the index is inside the text some rule applies; and the
\* loop reaches its end for every input.
C14_Total ==
    /\ [][ /\ tokI' > tokI
           /\ tokI' <= Len(text)
           /\ Len(tokens') = Len(tokens) + 1
           /\ SubSeq(tokens', 1, Len(tokens)) = tokens
           /\ tokens'[Len(tokens')].value # <<>>
           /\ Len(tokens'[Len(tokens')].value) = tokI' - tokI
           /\ tokens'[Len(tokens')].type = "other" =>
                 Len(tokens'[Len(tokens')].value) = 1 ]_vars
    /\ [](~TokDone => ENABLED NextTok)
    /\ <>TokDone

\* A text of unrecognized characters and a lone minus sign was tokenized to
\* the end, one token per character.
C14_Witness ==
    /\ TokDone
    /\ Len(tokens) = 3
    /\ tokens[1].type = "other"
    /\ tokens[2] = Token("number", <<"-">>)
    /\ tokens[3].type = "other"

(***************************************************************************)
(* handleCopy of Home and of TreeView: the clipboard write, the `copied`   *)
(* flag and the timers that reset it.  The two handlers have the same      *)
(* body; each acts on the flag of its own component.                       *)
(***************************************************************************)
MaxCopies == 3

\* The copy button of the component is on screen.
CopyButtonShown(c) ==
    IF c = "Home"
    THEN HasSelectedLine(lines, selectedId) /\ viewTab # "tree"
    ELSE treeViewMounted /\ selectedValue # JsNull

\* A handler that sets the flag without scheduling its reset.
ScheduledResets_None(timers) == timers

\* setTimeout(() => setCopied(false), 2000): one more callback is pending;
\* none is ever cancelled.
ScheduledResets(timers) == timers + 1

\* onClick of the copy button: handleCopy runs up to
\* `await navigator.clipboard.writeText(text)`.
HandleCopyClick(c) ==
    /\ CopyButtonShown(c)
    /\ copies < MaxCopies
    /\ copies' = copies + 1
    /\ copyWrites' = [copyWrites EXCEPT ![c] = @ + 1]
    /\ UNCHANGED <<copied, copyTimers, tokVars, ingestVars, viewVars,
                   panelVars, treeVars, docVars>>

\* The awaited write is fulfilled: setCopied(true); setTimeout(...).
ClipboardResolves(c) ==
    /\ copyWrites[c] > 0
    /\ copyWrites' = [copyWrites EXCEPT ![c] = @ - 1]
    /\ copied' = [copied EXCEPT ![c] = TRUE]
    /\ copyTimers' = [copyTimers EXCEPT ![c] = ScheduledResets(@)]
    /\ UNCHANGED <<copies, tokVars, ingestVars, viewVars, panelVars,
                   treeVars, docVars>>

\* The awaited write is rejected: catch (err) { console.error(...) }.
ClipboardRejects(c) ==
    /\ copyWrites[c] > 0
    /\ copyWrites' = [copyWrites EXCEPT ![c] = @ - 1]
    /\ UNCHANGED <<copied, copyTimers, copies, tokVars, ingestVars, viewVars,
                   panelVars, treeVars, docVars>>

\* A timer callback runs: () => setCopied(false).
ResetTimerFires(c) ==
    /\ copyTimers[c] > 0
    /\ copyTimers' = [copyTimers EXCEPT ![c] = @ - 1]
    /\ copied' = [copied EXCEPT ![c] = FALSE]
    /\ UNCHANGED <<copyWrites, copies, tokVars, ingestVars, viewVars,
                   panelVars, treeVars, docVars>>

\* A record of a loaded document is selected; the detail panel shows it in
\* one of its tabs, the tree tab with the root node inspected.
InitCopy ==
    /\ CopyIdle
    /\ \E c \in TreeInputs :
          /\ loaded = <<[name |-> "a.jsonl", content |-> c]>>
          /\ files = <<NewFile(1, "a.jsonl", c)>>
    /\ activeFileId = 1
    /\ pending = <<>>
    /\ generated = 1
    /\ closed = {}
    /\ lines = ActiveLines(files, activeFileId)
    /\ filter = ActiveFilter(files, activeFileId)
    /\ sortOrder = ActiveSortOrder(files, activeFileId)
    /\ displayLines = DisplayLines(lines, filter, sortOrder)
    /\ viewPc = "return"
    /\ selectedId = 1
    /\ viewTab \in {"raw", "pretty", "tree"}
    /\ IF viewTab = "tree"
       THEN /\ treeViewMounted = TRUE
            /\ selectedPath = JsString(RootPath)
            /\ selectedValue = SelectedLine(lines, selectedId).parsed
            /\ expandedPaths = {RootPath}
       ELSE TreeIdle
    /\ TokIdle
    /\ IngestIdle

NextCopy ==
    \/ \E c \in Components : HandleCopyClick(c)
    \/ \E c \in Components : ClipboardResolves(c)
    \/ \E c \in Components : ClipboardRejects(c)
    \/ \E c \in Components : ResetTimerFires(c)

\* A timer whose delay has elapsed has its callback run by the event loop.
SpecCopy ==
    /\ InitCopy
    /\ [][NextCopy]_vars
    /\ \A c \in Components : WF_vars(ResetTimerFires(c))

\* Everything but the flag and the pending timers of component c is kept.
OnlyFlagAndTimerChange(c) ==
    /\ UNCHANGED <<copyWrites, copies, tokVars, ingestVars, viewVars,
                   panelVars, treeVars, docVars>>
    /\ \A d \in Components \ {c} :
          copied'[d] = copied[d] /\ copyTimers'[d] = copyTimers[d]

\* C15: whenever a `copied` flag is true a reset of it is pending, and the
\* flag becomes false again; a reset that runs, also one scheduled by an
\* earlier copy, clears the flag and changes nothing but the flag and the
\* pending resets; a clipboard write that fails decrements the awaited
\* writes and changes nothing else.
C15_CopiedResets ==
    /\ [](\A c \in Components : copied[c] => copyTimers[c] > 0)
    /\ \A c \in Components : copied[c] ~> ~copied[c]
    /\ [][ \A c \in Components :
             /\ copyTimers'[c] < copyTimers[c] =>
                   /\ ~copied'[c]
                   /\ copyTimers'[c] = copyTimers[c] - 1
                   /\ OnlyFlagAndTimerChange(c)
             /\ ( copyWrites'[c] < copyWrites[c] /\ copyTimers'[c] = copyTimers[c] ) =>
                   /\ copyWrites'[c] = copyWrites[c] - 1
                   /\ UNCHANGED <<copied, copyTimers, copies, tokVars,
                                  ingestVars, viewVars, panelVars, treeVars,
                                  docVars>>
                   /\ \A d \in Components \ {c} : copyWrites'[d] = copyWrites[d]
          ]_vars

\* The reset of an earlier copy has cleared the flag of a later copy, whose
\* own reset is still pending, after a third write has failed.
C15_Witness ==
    \E c \in Components :
        /\ copies = 3
        /\ copyWrites[c] = 0
        /\ copyTimers[c] = 1
        /\ ~copied[c]

=============================================================================
